---- MODULE Spec2Model ----
(***************************************************************************)
(* The HOLD-escalation worker of risk-ai-worker: index.handler and the     *)
(* helpers of core.py it drives.                                           *)
(*                                                                         *)
(*   Spec         one worker instance, invoked again and again (the timer  *)
(*                trigger), invocations strictly one after the other       *)
(*   SpecOverlap  two worker instances whose invocations overlap           *)
(*   SpecAI       core.call_gemini_reasoning_rest called on its own, the   *)
(*                reasoning endpoint answering from a script               *)
(*   SpecAIFair   SpecAI with the fairness of a running call               *)
(*   SpecSanitizer, SpecRules, SpecCache, SpecPoller, SpecLogger,          *)
(*   SpecConn, SpecCacheTTL, SpecLive                                      *)
(*                one helper of core.py called on its own, on inputs drawn *)
(*                from the sets named with it                              *)
(***************************************************************************)
EXTENDS Integers, Sequences, FiniteSets, TLC

VARIABLES
    decisions,        \* rt.risk_withdraw_decision, in decision_timestamp order
    risk_features,    \* rt.risk_features: pair -> row, or None
    GEMINI_API_KEY,   \* cfg.GEMINI_API_KEY of the process
    pc,               \* per worker: "idle", "loop" (inside handler's for), "done", "crashed"
    rows,             \* per worker: handler's rows
    idx,              \* per worker: number of pairs of rows the for loop has taken
    total_processed,  \* per worker: handler's total_processed
    reported,         \* per worker: the count in handler's last result message
    select_ok,        \* per worker: whether the pending query of this invocation answered
    outcome,          \* per worker: what became of each pair taken so far (history)
    _RULES_CACHE,     \* per worker process: core._RULES_CACHE
    gem_pc,           \* call_gemini_reasoning_rest: "off", "idle", "attempt", "returned", "raised"
    gem_payload_ok,   \* whether building the request (core.py 409-430) succeeds
    gem_script,       \* what the endpoint answers to the 1st, 2nd, 3rd call
    gem_attempt,      \* the for loop's attempt index
    gem_calls,        \* number of urlopen calls made
    gem_result,       \* the returned dict (NoResult before the return)
    unit_pc,          \* a helper of core.py called on its own: "off", or its position
    unit_in,          \* its arguments and what its collaborators hold
    unit_out          \* what it has returned and done so far

vars == << decisions, risk_features, GEMINI_API_KEY, pc, rows, idx, total_processed,
           reported, select_ok, outcome, _RULES_CACHE,
           gem_pc, gem_payload_ok, gem_script, gem_attempt, gem_calls, gem_result,
           unit_pc, unit_in, unit_out >>

workerVars == << pc, rows, idx, total_processed, reported, select_ok,
                 outcome, _RULES_CACHE >>
gemVars == << gem_pc, gem_payload_ok, gem_script, gem_attempt, gem_calls, gem_result >>
unitVars == << unit_pc, unit_in, unit_out >>

\* Python values that may be None, a number or a string.
None == [t |-> "none"]
Num(n) == [t |-> "num", v |-> n]
Str(x) == [t |-> "str", s |-> x]
IsNum(x) == x.t = "num"

(***************************************************************************)
(* Bounds of the model.                                                    *)
(***************************************************************************)
NumPairs == 3          \* (user_code, txn_id) pairs that exist
MaxRows == 3           \* rows the decision table can hold
BatchLimit == 2        \* handler's limit=50 (index.py:166), scaled to NumPairs
ScriptLen == 3         \* answers of the reasoning endpoint that are scripted

Workers == {1, 2}

\* The pairs: 1 and 2 share a txn_id and differ in user_code.
PairOf(i) == << (i % 2) + 1, (i + 1) \div 2 >>
Pairs == { PairOf(i) : i \in 1..NumPairs }

Min(S) == CHOOSE m \in S : \A n \in S : m <= n

(***************************************************************************)
(* The decision store and the pending-work query (index.py 14-56).         *)
(***************************************************************************)
\* One row of rt.risk_withdraw_decision as the INSERT of core.py 306-346 writes it.
\* confidence is kept in hundredths (0.5 is 50).
DecisionRow(p, source, decision, threat, confidence) ==
    [ user_code |-> p[1], txn_id |-> p[2], decision_source |-> source,
      decision |-> decision, primary_threat |-> threat, confidence |-> confidence ]

\* The rows Phase 1 (the rule-decision function, an external collaborator) writes.
Phase1Row(p, decision) == DecisionRow(p, "RULE_ENGINE_RULES", decision, "RULE_HIT", 100)

\* WHERE a.user_code = d.user_code AND a.txn_id = d.txn_id (index.py 39-40).
SamePair(a, p) == a.user_code = p[1] /\ a.txn_id = p[2]

\* The NOT EXISTS subquery (index.py 36-42).
HasAIReviewIgnored(table, p) == FALSE
HasAIReview(table, p) ==
    \E i \in DOMAIN table :
        SamePair(table[i], p) /\ table[i].decision_source = "AI_AGENT_REVIEW"

\* WHERE decision_source = 'RULE_ENGINE_RULES' AND decision = 'HOLD' (index.py 34-35).
HoldRows(table, p) ==
    { i \in DOMAIN table :
        /\ table[i].user_code = p[1] /\ table[i].txn_id = p[2]
        /\ table[i].decision_source = "RULE_ENGINE_RULES"
        /\ table[i].decision = "HOLD" }

\* The grouped subquery: the pairs with a HOLD rule row and no AI row (index.py 28-44).
PendingPairs(table) ==
    { p \in { << table[i].user_code, table[i].txn_id >> : i \in DOMAIN table } :
        HoldRows(table, p) # {} /\ ~HasAIReview(table, p) }

\* MIN(d.decision_timestamp) AS first_decision_ts (index.py 32).
first_decision_ts(table, p) == Min(HoldRows(table, p))

\* ORDER BY sub.first_decision_ts ASC (index.py 45).
RECURSIVE OrderByFirstTs(_, _)
OrderByFirstTs(table, S) ==
    IF S = {} THEN << >>
    ELSE LET p == CHOOSE q \in S :
                    \A r \in S : first_decision_ts(table, q) <= first_decision_ts(table, r)
         IN  << p >> \o OrderByFirstTs(table, S \ {p})

\* LIMIT %s (index.py 46).
Limit(s, n) == SubSeq(s, 1, IF Len(s) < n THEN Len(s) ELSE n)

\* _fetch_pending_hold_txns(limit): the query's answer, or [] when the store
\* fails (index.py 53-56).
_fetch_pending_hold_txns(table, limit, ok) ==
    IF ok THEN Limit(OrderByFirstTs(table, PendingPairs(table)), limit) ELSE << >>

AIRows(table, p) ==
    { i \in DOMAIN table :
        /\ table[i].user_code = p[1] /\ table[i].txn_id = p[2]
        /\ table[i].decision_source = "AI_AGENT_REVIEW" }

(***************************************************************************)
(* The feature store and the sanitizer (core.py 88-137).                   *)
(***************************************************************************)
\* A row of rt.risk_features as dict_factory returns it; amounts are whole
\* units, withdrawal_ratio is kept in hundredths (1.0 is 100).
Features(amount, total, ratio) ==
    [ withdrawal_amount |-> amount, total_balance_sum |-> total,
      withdrawal_ratio |-> ratio, withdrawal_ratio_source |-> None ]

\* The row the feature job computes for a pair: scenario A (no balance, no rule
\* matches) for user_code 2, scenario B (amount over 5000) for user_code 1.
FeatureRowOf(p) ==
    IF p[1] = 2 THEN Features(Num(1000), Num(0), None)
    ELSE Features(Num(6000), Num(10000), Num(60))

\* fetch_risk_features: the row, or None when there is none or the read fails
\* (core.py 95-109).
fetch_risk_features(table, p, ok) == IF ok THEN table[p] ELSE None

\* float(x) raises on a value that is not a number (core.py 118-122).
FloatRaises(x) == x # None /\ ~IsNum(x)

\* amt is not None and (total is None or total <= 0) (core.py 125).
UnknownBalanceStrict(amt, total) ==
    amt # None /\ (total = None \/ (IsNum(total) /\ total.v < 0))
UnknownBalance(amt, total) ==
    amt # None /\ (total = None \/ (IsNum(total) /\ total.v <= 0))

\* amt is not None and total is not None and total < amt * 0.1 (core.py 131).
SuspiciousTotalInclusive(amt, total) ==
    amt # None /\ total # None /\ 10 * total.v <= amt.v
SuspiciousTotal(amt, total) ==
    amt # None /\ total # None /\ 10 * total.v < amt.v

patch_withdrawal_ratio(f) ==
    LET amt   == f.withdrawal_amount
        ratio == f.withdrawal_ratio
        total == f.total_balance_sum
    IN  IF FloatRaises(amt) \/ FloatRaises(ratio) \/ FloatRaises(total) THEN f
        ELSE IF UnknownBalance(amt, total)
        THEN [f EXCEPT !.withdrawal_ratio = Num(100),
                       !.withdrawal_ratio_source = Str("UNKNOWN_BALANCE")]
        ELSE IF SuspiciousTotal(amt, total)
        THEN [f EXCEPT !.withdrawal_ratio = Num(100),
                       !.withdrawal_ratio_source = Str("SUSPICIOUS_TOTAL_BALANCE")]
        ELSE [f EXCEPT !.withdrawal_ratio_source = Str("BALANCE_CACHE")]

\* refresh_sanctions_and_age on a row without chain / destination_address:
\* returned as it is, no store read (core.py 150-153).
refresh_sanctions_and_age(f) == f

(***************************************************************************)
(* The rule set and its evaluation (core.py 261-288, 358-384).             *)
(***************************************************************************)
\* A logic_expression is kept as what eval makes of it: a comparison of one
\* feature with a number, or an expression that raises.
Rule(id, priority, expr, action) ==
    [ rule_id |-> id, rule_name |-> "R", priority |-> priority,
      logic_expression |-> expr, action |-> action, narrative |-> "N" ]
Gt(name, k) == [op |-> "gt", name |-> name, k |-> k]

\* rt.risk_rules WHERE status = 'ACTIVE' ORDER BY priority ASC: scenario B's rule.
RulesTable == << Rule(1, 1, Gt("withdrawal_amount", 5000), "REJECT") >>

\* safe_locals: None becomes 0 (core.py 362-364).
SafeLocal(f, name) == IF f[name] = None THEN Num(0) ELSE f[name]

EvalRaises(f, e) ==
    \/ e.op # "gt"
    \/ e.name \notin DOMAIN f
    \/ ~IsNum(SafeLocal(f, e.name))
EvalTrue(f, e) == ~EvalRaises(f, e) /\ SafeLocal(f, e.name).v > e.k

NotTriggered ==
    [ triggered |-> FALSE, decision |-> "", rule_id |-> 0, narrative |-> << >> ]

\* The context of a hit (core.py 370-379); the narrative is
\* f"[Rule #{rule_id}] {narrative}".
Triggered(rule) ==
    [ triggered |-> TRUE, decision |-> rule.action, rule_id |-> rule.rule_id,
      narrative |-> << "Rule #", rule.rule_id, rule.narrative >> ]

\* What eval raises on the expression (core.py 368): bad syntax, a name that
\* is no feature, a comparison of a text with a number.
ErrorOf(f, e) ==
    IF e.op # "gt" THEN "SyntaxError"
    ELSE IF e.name \notin DOMAIN f THEN "NameError"
    ELSE "TypeError"

\* except Exception as exc: ... continue (core.py 381-383).
RuleErrorCaughtNameOnly(exc) == exc = "NameError"
RuleErrorCaught(exc) == exc \in { "SyntaxError", "NameError", "TypeError" }

RECURSIVE evaluate_fixed_rules(_, _)
evaluate_fixed_rules(f, rules) ==
    IF rules = << >> THEN NotTriggered
    ELSE IF EvalTrue(f, Head(rules).logic_expression)
    THEN Triggered(Head(rules))
    ELSE evaluate_fixed_rules(f, Tail(rules))

\* core._RULES_CACHE: nothing loaded yet, or the list of the last successful load.
NoCache == [loaded |-> FALSE, rules |-> << >>]

\* load_dynamic_rules on a store that holds table: [rules returned, cache
\* afterwards].  fresh: the cache is younger than RULE_CACHE_TTL; ok: the store
\* answers.
LoadRulesFailOpen(cache, fresh, ok, table) ==
    IF cache.loaded /\ fresh THEN [rules |-> cache.rules, cache |-> cache]
    ELSE IF ok THEN [rules |-> table, cache |-> [loaded |-> TRUE, rules |-> table]]
    ELSE [rules |-> << >>, cache |-> cache]
LoadRules(cache, fresh, ok, table) ==
    IF cache.loaded /\ fresh THEN [rules |-> cache.rules, cache |-> cache]
    ELSE IF ok THEN [rules |-> table, cache |-> [loaded |-> TRUE, rules |-> table]]
    ELSE [rules |-> IF cache.loaded /\ cache.rules # << >> THEN cache.rules ELSE << >>,
          cache |-> cache]

\* load_dynamic_rules while the store holds scenario B's rule.
load_dynamic_rules(cache, fresh, ok) == LoadRules(cache, fresh, ok, RulesTable)

(***************************************************************************)
(* The AI client (core.py 390-500).                                        *)
(***************************************************************************)
\* for attempt in range(3) (core.py 433).
GeminiAttemptsOneMore == 3 + 1
GeminiAttempts == 3

\* A key the parsed JSON object does not hold.
Missing == [t |-> "missing"]

\* The JSON object of the model's text.  final_decision, primary_threat and
\* rule_alignment: the string, "MISSING" (no such key) or "NULL" (JSON null).
AiObj(decision, threat, score, confidence, alignment) ==
    [ final_decision |-> decision, primary_threat |-> threat, risk_score |-> score,
      confidence |-> confidence, rule_alignment |-> alignment ]
NoObj == AiObj("", "", Missing, Missing, "")

\* What one urlopen call and the reading of its answer meet (core.py 435-458):
\*   HTTP_ERROR     urlopen raises HTTPError
\*   NET_ERROR      urlopen raises URLError or times out
\*   STATUS         a response whose status is not 200
\*   BAD_BODY       the body is not JSON
\*   NO_CANDIDATES  no candidates in the body (the empty response)
\*   NO_PARTS       a candidate without parts
\*   BAD_TEXT       the text is not JSON (the malformed response)
\*   NOT_OBJECT     the text is JSON, but no object
\*   OBJECT         the text is the JSON object ai
Outcome(kind, ai) == [kind |-> kind, ai |-> ai]
ErrorKinds ==
    { "HTTP_ERROR", "NET_ERROR", "STATUS", "BAD_BODY", "NO_CANDIDATES",
      "NO_PARTS", "BAD_TEXT", "NOT_OBJECT" }
TransientKinds == { "HTTP_ERROR", "NET_ERROR" }

\* Objects the model may answer: the three decisions, a decision outside the
\* schema, no decision, and a risk_score that is no number.
AiObjs ==
    { AiObj(d, "AML", Num(85), Num(90), "OVERRIDES_TO_REJECT") :
        d \in { "PASS", "HOLD", "REJECT", "APPROVE", "MISSING" } }
    \cup { AiObj("REJECT", "AML", Str("high"), Num(90), "OVERRIDES_TO_REJECT") }
Outcomes ==
    { Outcome(k, NoObj) : k \in ErrorKinds } \cup { Outcome("OBJECT", a) : a \in AiObjs }

\* ai_obj.get(key, default) on a string field (core.py 460-465).
GetStr(x, default) == IF x = "MISSING" THEN default ELSE x

\* int(ai_obj.get("risk_score", 0) or 0) and float(ai_obj.get("confidence", 0.7)
\* or 0.7): whether the coercion raises, and its value (core.py 462-463).
Falsy(x) == x = Missing \/ x = None \/ (IsNum(x) /\ x.v = 0)
CoerceRaises(x) == ~Falsy(x) /\ ~IsNum(x)
Coerce(x, default) == IF Falsy(x) THEN default ELSE x.v

ParseRaises(ai) == CoerceRaises(ai.risk_score) \/ CoerceRaises(ai.confidence)

AiDecision(decision, threat, score, confidence, narrative, alignment) ==
    [ final_decision |-> decision, primary_threat |-> threat, risk_score |-> score,
      confidence |-> confidence, narrative |-> narrative, rule_alignment |-> alignment ]

\* The dict of core.py 467-474.
Parsed(ai) ==
    AiDecision(GetStr(ai.final_decision, "HOLD"), GetStr(ai.primary_threat, "NONE"),
               Coerce(ai.risk_score, 0), Coerce(ai.confidence, 70), "AI evaluation.",
               GetStr(ai.rule_alignment, "AGREES_WITH_RULE"))

\* The three fixed returns (core.py 399-406, 483-490, 493-500).
NoKeyFallback ==
    AiDecision("HOLD", "NONE", 0, 50, "AI config missing.", "AGREES_WITH_RULE")
NetErrFallbackFailOpen ==
    AiDecision("PASS", "NONE", 0, 50, "AI unavailable or invalid response.",
               "AGREES_WITH_RULE")
NetErrFallback ==
    AiDecision("HOLD", "AI_NET_ERR", 0 - 1, 50, "AI unavailable or invalid response.",
               "AGREES_WITH_RULE")
FatalFallback ==
    AiDecision("HOLD", "AI_ERR", 0 - 1, 50, "AI exception", "AGREES_WITH_RULE")
NoResult == AiDecision("", "", 0, 0, "", "")

\* One pass of the loop body on outcome o: "return" (467), "break" (438, 444)
\* or "retry" (the except clauses 475-480, which sleep and go round again).
AttemptEffectBreakOnError(o) ==
    IF o.kind = "OBJECT" /\ ~ParseRaises(o.ai) THEN "return" ELSE "break"
AttemptEffectRetryEmpty(o) ==
    IF o.kind = "OBJECT" /\ ~ParseRaises(o.ai) THEN "return" ELSE "retry"
AttemptEffect(o) ==
    IF o.kind \in {"STATUS", "NO_CANDIDATES"} THEN "break"
    ELSE IF o.kind = "OBJECT" /\ ~ParseRaises(o.ai) THEN "return"
    ELSE "retry"

\* The endpoint's answer to the n-th call (the script is read round again past
\* its end).
Answer(script, n) == script[((n - 1) % Len(script)) + 1]

\* The loop from attempt index a on, and the fallback after it (core.py 433-490).
RECURSIVE GeminiLoop(_, _)
GeminiLoop(script, a) ==
    IF a >= GeminiAttempts THEN NetErrFallback
    ELSE LET o == Answer(script, a + 1)
             e == AttemptEffect(o)
         IN  IF e = "return" THEN Parsed(o.ai)
             ELSE IF e = "break" THEN NetErrFallback
             ELSE GeminiLoop(script, a + 1)

\* call_gemini_reasoning_rest's parameters besides features (core.py 390).
GeminiParams == { "rule_context" }

\* if not cfg.GEMINI_API_KEY (core.py 398).
KeyMissingNever(key) == FALSE
KeyMissing(key) == key = ""

\* call_gemini_reasoning_rest as a function of the key, of whether the request
\* can be built, and of the endpoint's answers.
call_gemini_reasoning_rest(key, payload_ok, script) ==
    IF KeyMissing(key) THEN NoKeyFallback
    ELSE IF ~payload_ok THEN FatalFallback
    ELSE GeminiLoop(script, 0)

(***************************************************************************)
(* The decision logger (core.py 291-351).                                  *)
(***************************************************************************)
\* float(x) on what the caller put under "confidence" (core.py 320): a number,
\* a text that reads as a number ("0.9"), or anything else, which raises.
FloatParses(x) == IsNum(x) \/ x = Str("0.9")
FloatValue(x) == IF IsNum(x) THEN x.v ELSE 90

\* The confidence written (core.py 317-328), in hundredths; an absent
\* risk_score is result.get("risk_score", 0).
LogConfidenceNoSentinel(result) ==
    IF result.confidence # Missing
    THEN IF FloatParses(result.confidence) THEN FloatValue(result.confidence) ELSE 70
    ELSE LET score == IF result.risk_score = Missing THEN Num(0) ELSE result.risk_score
         IN  IF IsNum(score) THEN score.v ELSE 100
LogConfidence(result) ==
    IF result.confidence # Missing
    THEN IF FloatParses(result.confidence) THEN FloatValue(result.confidence) ELSE 70
    ELSE LET score == IF result.risk_score = Missing THEN Num(0) ELSE result.risk_score
         IN  IF IsNum(score) /\ score.v >= 0 THEN score.v ELSE 100

\* log_decision_to_db: the table after the call.  A failing write is caught
\* and leaves the table as it was (core.py 350-351).
log_decision_to_db(table, p, result, source, ok) ==
    IF ok
    THEN Append(table, DecisionRow(p, source, GetStr(result.decision, "HOLD"),
                                   GetStr(result.primary_threat, "UNKNOWN"),
                                   LogConfidence(result)))
    ELSE table

(***************************************************************************)
(* _process_single_txn (index.py 59-152).                                  *)
(***************************************************************************)
\* The names core.py defines.
CoreAttrs ==
    { "get_db_conn", "dict_factory", "fetch_risk_features", "patch_withdrawal_ratio",
      "refresh_sanctions_and_age", "wait_for_risk_features", "send_lark_notification",
      "load_dynamic_rules", "log_decision_to_db", "evaluate_fixed_rules",
      "call_gemini_reasoning_rest" }

\* The keyword arguments index.py 96-97 passes to call_gemini_reasoning_rest.
HandlerKwargs == { "rule_context", "behavior_context" }

\* What a call of _process_single_txn has done: ret is "True", "False" or the
\* exception it raised; steps are the pipeline steps it completed (RULE_CONTEXT
\* is lines 81-91, the rule context and the behavior context); cache is
\* core._RULES_CACHE afterwards; table is the decision table afterwards.
Effect(ret, steps, cache, table) ==
    [ ret |-> ret, steps |-> steps, cache |-> cache, table |-> table ]

\* if not features (index.py 64).
AbsentNever(f) == FALSE
Absent(f) == f = None

\* Lines 62-91: everything before the AI call.  ret is "go" when line 96 is reached.
\* Without the early return, line 69 assigns into None and raises TypeError.
BeforeAI(table, feats, cache, p, featOk, fresh, rulesOk) ==
    LET f0 == fetch_risk_features(feats, p, featOk)
    IN  IF Absent(f0) THEN Effect("False", << "FETCH" >>, cache, table)
        ELSE IF f0 = None THEN Effect("TypeError", << "FETCH" >>, cache, table)
        ELSE
        LET f1  == refresh_sanctions_and_age(f0)
            f2  == patch_withdrawal_ratio(f1)
            ld  == load_dynamic_rules(cache, fresh, rulesOk)
            ctx == evaluate_fixed_rules(f2, ld.rules)
        IN  IF ~ctx.triggered /\ "fetch_phase1_hold_narrative" \notin CoreAttrs
            THEN Effect("AttributeError", << "FETCH", "ENRICH", "SANITIZE" >>,
                        ld.cache, table)
            ELSE IF "build_behavior_context" \notin CoreAttrs
            THEN Effect("AttributeError", << "FETCH", "ENRICH", "SANITIZE" >>,
                        ld.cache, table)
            ELSE IF ~(HandlerKwargs \subseteq GeminiParams)
            THEN Effect("TypeError", << "FETCH", "ENRICH", "SANITIZE", "RULE_CONTEXT" >>,
                        ld.cache, table)
            ELSE Effect("go", << "FETCH", "ENRICH", "SANITIZE", "RULE_CONTEXT" >>,
                        ld.cache, table)

\* Lines 94-152: the AI call and the log.
FromAI(pre, p, key, payload_ok, script, logOk) ==
    LET ai_raw == call_gemini_reasoning_rest(key, payload_ok, script)
        result == [ decision |-> ai_raw.final_decision,
                    primary_threat |-> ai_raw.primary_threat,
                    risk_score |-> Num(ai_raw.risk_score),
                    confidence |-> Num(ai_raw.confidence) ]
    IN  Effect("True", pre.steps \o << "AI_CALL", "LOG" >>, pre.cache,
               log_decision_to_db(pre.table, p, result, "AI_AGENT_REVIEW", logOk))

Scripts == [1..ScriptLen -> Outcomes]

\* The calls of _process_single_txn(p) that are possible in the current state.
ProcessEffects(w, p) ==
    LET pres == { BeforeAI(decisions, risk_features, _RULES_CACHE[w], p,
                           featOk, fresh, rulesOk) :
                    featOk \in BOOLEAN, fresh \in BOOLEAN, rulesOk \in BOOLEAN }
    IN  { e \in pres : e.ret # "go" }
        \cup UNION { { FromAI(pre, p, GEMINI_API_KEY, payload_ok, script, logOk) :
                         payload_ok \in BOOLEAN, script \in Scripts, logOk \in BOOLEAN } :
                     pre \in { e \in pres : e.ret = "go" } }

(***************************************************************************)
(* handler (index.py 155-183).                                             *)
(***************************************************************************)
\* except Exception (index.py 173): every exception _process_single_txn can raise.
CaughtOnlyTypeError(exc) == exc = "TypeError"
Caught(exc) == exc \in { "AttributeError", "TypeError" }

\* if _process_single_txn(...): total_processed += 1 (index.py 171-172).
CountsAlways(ret) == TRUE
Counts(ret) == ret = "True"

\* What became of one pair: found tells whether rt.risk_features held its row.
\* logged tells whether the call changed the decision table.
Outcome1(p, found, e) ==
    [ pair |-> p, found |-> found, ret |-> e.ret, steps |-> e.steps,
      logged |-> e.table # decisions ]

\* handler is invoked: lines 163-167, the pending query included.
Trigger(w) ==
    /\ pc[w] \in { "idle", "done" }
    /\ \E ok \in BOOLEAN :
          /\ rows' = [rows EXCEPT ![w] = _fetch_pending_hold_txns(decisions, BatchLimit, ok)]
          /\ select_ok' = [select_ok EXCEPT ![w] = ok]
    /\ pc' = [pc EXCEPT ![w] = "loop"]
    /\ idx' = [idx EXCEPT ![w] = 0]
    /\ total_processed' = [total_processed EXCEPT ![w] = 0]
    /\ outcome' = [outcome EXCEPT ![w] = << >>]
    /\ UNCHANGED << decisions, risk_features, GEMINI_API_KEY, reported, _RULES_CACHE, gemVars, unitVars >>

\* One pass of the for loop: _process_single_txn on the next pair inside the
\* try (index.py 169-174).
LoopStep(w) ==
    /\ pc[w] = "loop"
    /\ idx[w] < Len(rows[w])
    /\ LET p == rows[w][idx[w] + 1]
       IN  \E e \in ProcessEffects(w, p) :
              /\ decisions' = e.table
              /\ _RULES_CACHE' = [_RULES_CACHE EXCEPT ![w] = e.cache]
              /\ outcome' = [outcome EXCEPT
                               ![w] = Append(@, Outcome1(p, risk_features[p] # None, e))]
              /\ idx' = [idx EXCEPT ![w] = @ + 1]
              /\ total_processed' =
                    [total_processed EXCEPT
                       ![w] = IF e.ret \in { "True", "False" } /\ Counts(e.ret)
                              THEN @ + 1 ELSE @]
              /\ pc' = [pc EXCEPT
                          ![w] = IF e.ret \in { "True", "False" } \/ Caught(e.ret)
                                 THEN "loop" ELSE "crashed"]
    /\ UNCHANGED << risk_features, GEMINI_API_KEY, rows, reported, select_ok, gemVars, unitVars >>

\* The loop is over: the result message and the return (index.py 176-183).
Return(w) ==
    /\ pc[w] = "loop"
    /\ idx[w] = Len(rows[w])
    /\ pc' = [pc EXCEPT ![w] = "done"]
    /\ reported' = [reported EXCEPT ![w] = total_processed[w]]
    /\ UNCHANGED << decisions, risk_features, GEMINI_API_KEY, rows, idx, total_processed,
                    select_ok, outcome, _RULES_CACHE, gemVars, unitVars >>

(***************************************************************************)
(* The collaborators that write the stores.                                *)
(***************************************************************************)
\* Phase 1 records a rule decision.
Phase1Decision(p, d) ==
    /\ Len(decisions) < MaxRows
    /\ decisions' = Append(decisions, Phase1Row(p, d))
    /\ UNCHANGED << risk_features, GEMINI_API_KEY, workerVars, gemVars, unitVars >>

\* The pairs the decision table has a row of.  The worker reads the features
\* of selected pairs only (index.py 63), all of which have a row; the feature
\* row of a pair without any decision row is left out of the model.
Decided(table) == { << table[i].user_code, table[i].txn_id >> : i \in DOMAIN table }

\* The feature-computation job writes the row of a pair.
FeatureJob(p) ==
    /\ p \in Decided(decisions)
    /\ risk_features[p] = None
    /\ risk_features' = [risk_features EXCEPT ![p] = FeatureRowOf(p)]
    /\ UNCHANGED << decisions, GEMINI_API_KEY, workerVars, gemVars, unitVars >>

Environment ==
    \/ \E p \in Pairs, d \in { "HOLD", "PASS" } : Phase1Decision(p, d)
    \/ \E p \in Pairs : FeatureJob(p)

(***************************************************************************)
(* Initial states.                                                         *)
(***************************************************************************)
\* A review row written before this worker started.
PriorReviewRow(p) == DecisionRow(p, "AI_AGENT_REVIEW", "HOLD", "NONE", 50)

\* The decision table when the worker starts: rule rows, and at most one
\* review row per pair, written after a HOLD rule row of the pair.
InitRowSet ==
    { Phase1Row(p, d) : p \in Pairs, d \in { "HOLD", "PASS" } }
    \cup { PriorReviewRow(p) : p \in Pairs }
InitTables ==
    { t \in UNION { [1..n -> InitRowSet] : n \in 0..MaxRows } :
        \A i \in DOMAIN t :
            t[i].decision_source = "AI_AGENT_REVIEW" =>
                /\ \E j \in 1..(i - 1) : t[j] = Phase1Row(<< t[i].user_code, t[i].txn_id >>, "HOLD")
                /\ \A j \in DOMAIN t : t[j] = t[i] => j = i }

\* rt.risk_features when the worker starts: the rows computed so far.
FeatureTables ==
    { [p \in Pairs |-> IF p \in S THEN FeatureRowOf(p) ELSE None] : S \in SUBSET Pairs }

GemIdle ==
    /\ gem_pc = "off"
    /\ gem_payload_ok = TRUE
    /\ gem_script = << >>
    /\ gem_attempt = 0
    /\ gem_calls = 0
    /\ gem_result = NoResult

UnitIdle ==
    /\ unit_pc = "off"
    /\ unit_in = None
    /\ unit_out = None

WorkersIdle ==
    /\ pc = [w \in Workers |-> "idle"]
    /\ rows = [w \in Workers |-> << >>]
    /\ idx = [w \in Workers |-> 0]
    /\ total_processed = [w \in Workers |-> 0]
    /\ reported = [w \in Workers |-> 0]
    /\ select_ok = [w \in Workers |-> TRUE]
    /\ outcome = [w \in Workers |-> << >>]
    /\ _RULES_CACHE = [w \in Workers |-> NoCache]

Init ==
    /\ decisions \in InitTables
    /\ risk_features \in FeatureTables
    /\ \A p \in Pairs : risk_features[p] # None => p \in Decided(decisions)
    /\ GEMINI_API_KEY = ""
    /\ WorkersIdle
    /\ GemIdle
    /\ UnitIdle

\* One worker instance, its invocations one after the other.
Next ==
    \/ Trigger(1)
    \/ LoopStep(1)
    \/ Return(1)
    \/ Environment

Spec == Init /\ [][Next]_vars

\* Two worker instances, their invocations overlapping at will.
NextOverlap ==
    \/ \E w \in Workers : Trigger(w)
    \/ \E w \in Workers : LoopStep(w)
    \/ \E w \in Workers : Return(w)
    \/ Environment

SpecOverlap == Init /\ [][NextOverlap]_vars

(***************************************************************************)
(* The scheduler's claims.                                                 *)
(***************************************************************************)
Range(s) == { s[i] : i \in DOMAIN s }
AllSteps == << "FETCH", "ENRICH", "SANITIZE", "RULE_CONTEXT", "AI_CALL", "LOG" >>
Exceptions == { "AttributeError", "TypeError" }
Completed(w) == { i \in DOMAIN outcome[w] : outcome[w][i].ret = "True" }

\* C1: when an invocation of handler has ended, every pair it selected whose
\* features the feature store held and returned has been driven through every
\* step up to LOG and has an AI_AGENT_REVIEW row in the decision store.
C1_SelectedPairsReviewed ==
    \A w \in Workers :
        pc[w] = "done" =>
            \A i \in DOMAIN outcome[w] :
                (outcome[w][i].found /\ outcome[w][i].ret # "False") =>
                    /\ outcome[w][i].steps = AllSteps
                    /\ AIRows(decisions, outcome[w][i].pair) # {}

\* C2: no exception escapes handler, and an invocation that has ended has
\* taken every pair of its batch, in order, whatever was raised before it.
C2_FailureIsolation ==
    \A w \in Workers :
        /\ pc[w] # "crashed"
        /\ Len(outcome[w]) = idx[w]
        /\ idx[w] <= Len(rows[w])
        /\ \A i \in DOMAIN outcome[w] : outcome[w][i].pair = rows[w][i]
        /\ pc[w] = "done" => idx[w] = Len(rows[w])

\* C2's case: an invocation has ended in which a pair raised and a later pair
\* of the same batch was processed after it.
C2_Witness ==
    /\ pc[1] = "done"
    /\ \E i, j \in DOMAIN outcome[1] :
          i < j /\ outcome[1][i].ret \in Exceptions

\* C3: with invocations one after the other, the batch holds at most the limit
\* of pairs, no pair twice, only pairs with a RULE_ENGINE_RULES/HOLD row, and no
\* pair still to be processed has an AI_AGENT_REVIEW row; no pair has more than
\* one AI_AGENT_REVIEW row.
C3_SequentialSelection ==
    /\ \A w \in Workers :
          /\ Len(rows[w]) <= BatchLimit
          /\ \A i, j \in DOMAIN rows[w] : rows[w][i] = rows[w][j] => i = j
          /\ \A i \in DOMAIN rows[w] : HoldRows(decisions, rows[w][i]) # {}
          /\ \A i \in (idx[w] + 1)..Len(rows[w]) : AIRows(decisions, rows[w][i]) = {}
    /\ \A p \in Pairs : Cardinality(AIRows(decisions, p)) <= 1

\* C3's case: an invocation has selected a pair while another pair, which has
\* a HOLD rule row and an AI_AGENT_REVIEW row, was left out.
C3_Witness ==
    /\ pc[1] = "loop"
    /\ select_ok[1]
    /\ Len(rows[1]) >= 1
    /\ \E p \in Pairs :
          /\ HoldRows(decisions, p) # {}
          /\ AIRows(decisions, p) # {}
          /\ p \notin Range(rows[1])

\* C4: two overlapping invocations that both selected a pair and both fetched
\* its features each log an AI_AGENT_REVIEW row for it, so once both have ended
\* the pair has two such rows.
C4_OverlapDuplicates ==
    (pc[1] = "done" /\ pc[2] = "done") =>
        \A i \in DOMAIN outcome[1], j \in DOMAIN outcome[2] :
            ( /\ outcome[1][i].pair = outcome[2][j].pair
              /\ outcome[1][i].found /\ outcome[1][i].ret # "False"
              /\ outcome[2][j].found /\ outcome[2][j].ret # "False" )
            => Cardinality(AIRows(decisions, outcome[1][i].pair)) >= 2

\* C5: a pair whose features are absent is skipped: the call returns False
\* after the fetch alone (no poll, no AI call, no log), leaves the decision
\* store as it was and is not counted; the pair is selected again by the next
\* invocation whose pending query answers.
C5_SkipWhenAbsent ==
    /\ [](\A w \in Workers : \A i \in DOMAIN outcome[w] :
            /\ ~outcome[w][i].found => outcome[w][i].ret = "False"
            /\ outcome[w][i].ret = "False" =>
                  /\ outcome[w][i].steps = << "FETCH" >>
                  /\ ~outcome[w][i].logged)
    /\ [][\A w \in Workers :
            /\ (idx'[w] = idx[w] + 1 /\ outcome'[w][idx'[w]].ret = "False") =>
                  /\ decisions' = decisions
                  /\ total_processed'[w] = total_processed[w]
            /\ (pc[w] = "done" /\ pc'[w] = "loop" /\ select_ok'[w]) =>
                  \A i \in DOMAIN outcome[w] :
                      outcome[w][i].ret = "False" => outcome[w][i].pair \in Range(rows'[w])
         ]_vars

\* C5's case: an invocation has ended that skipped a pair without features.
C5_Witness ==
    /\ pc[1] = "done"
    /\ \E i \in DOMAIN outcome[1] :
          ~outcome[1][i].found /\ outcome[1][i].ret = "False"

\* C6: handler's count is the number of pairs of the batch that were driven
\* through every step up to LOG; it is what the result message reports and is
\* never more than the number of pairs selected.
C6_CountIsCompleted ==
    \A w \in Workers :
        /\ total_processed[w] = Cardinality(Completed(w))
        /\ \A i \in DOMAIN outcome[w] :
              outcome[w][i].ret = "True" <=> outcome[w][i].steps = AllSteps
        /\ total_processed[w] <= Len(rows[w])
        /\ pc[w] = "done" => reported[w] = total_processed[w]

\* C6's case: an invocation has ended whose batch held a skipped pair and a
\* pair that raised, and reported its count.
C6_Witness ==
    /\ pc[1] = "done"
    /\ \E i, j \in DOMAIN outcome[1] :
          outcome[1][i].ret = "False" /\ outcome[1][j].ret \in Exceptions
    /\ reported[1] = Cardinality(Completed(1))

(***************************************************************************)
(* call_gemini_reasoning_rest step by step.                                *)
(***************************************************************************)
GeminiReturn(result) ==
    /\ gem_result' = result
    /\ gem_pc' = "returned"

\* Lines 398-430: the key check and the building of the request; a failure to
\* build it is caught by the outer except (core.py 491-500).
GeminiCall ==
    /\ gem_pc = "idle"
    /\ IF KeyMissing(GEMINI_API_KEY) THEN GeminiReturn(NoKeyFallback)
       ELSE IF ~gem_payload_ok THEN GeminiReturn(FatalFallback)
       ELSE gem_pc' = "attempt" /\ gem_result' = gem_result
    /\ UNCHANGED << decisions, risk_features, GEMINI_API_KEY, workerVars,
                    gem_payload_ok, gem_script, gem_attempt, gem_calls, unitVars >>

\* Lines 433-490: one pass of the loop, the fallback after the loop included.
GeminiAttempt ==
    /\ gem_pc = "attempt"
    /\ gem_attempt < GeminiAttempts
    /\ gem_calls' = gem_calls + 1
    /\ LET o == Answer(gem_script, gem_calls + 1)
           e == AttemptEffect(o)
       IN  IF e = "return"
           THEN GeminiReturn(Parsed(o.ai)) /\ gem_attempt' = gem_attempt
           ELSE IF e = "break"
           THEN GeminiReturn(NetErrFallback) /\ gem_attempt' = gem_attempt
           ELSE /\ gem_attempt' = gem_attempt + 1
                /\ IF gem_attempt + 1 >= GeminiAttempts
                   THEN GeminiReturn(NetErrFallback)
                   ELSE gem_pc' = gem_pc /\ gem_result' = gem_result
    /\ UNCHANGED << decisions, risk_features, GEMINI_API_KEY, workerVars,
                    gem_payload_ok, gem_script, unitVars >>

InitAI ==
    /\ decisions = << >>
    /\ risk_features = [p \in Pairs |-> None]
    /\ GEMINI_API_KEY \in { "", "key" }
    /\ WorkersIdle
    /\ gem_pc = "idle"
    /\ gem_payload_ok \in BOOLEAN
    /\ gem_script \in Scripts
    /\ gem_attempt = 0
    /\ gem_calls = 0
    /\ gem_result = NoResult
    /\ UnitIdle

NextAI == GeminiCall \/ GeminiAttempt

SpecAI == InitAI /\ [][NextAI]_vars

\* A call that has begun keeps running: every attempt ends by its timeout.
SpecAIFair == SpecAI /\ WF_vars(NextAI)

\* The stepwise call returns what the function computes.
GeminiAgrees ==
    gem_pc = "returned" =>
        gem_result = call_gemini_reasoning_rest(GEMINI_API_KEY, gem_payload_ok, gem_script)

(***************************************************************************)
(* The AI client's claims.                                                 *)
(***************************************************************************)
Transient(o) == o.kind \in { "HTTP_ERROR", "NET_ERROR" }
Malformed(o) == o.kind = "BAD_TEXT"
Empty(o) == o.kind = "NO_CANDIDATES"

\* A valid response: a JSON object with a decision of the schema and numbers
\* for risk_score and confidence.
Valid(o) ==
    /\ o.kind = "OBJECT"
    /\ o.ai.final_decision \in { "PASS", "HOLD", "REJECT" }
    /\ o.ai.risk_score.t = "num"
    /\ o.ai.confidence.t = "num"

\* The answers the call has received so far.
Received == { j \in 1..ScriptLen : j <= gem_calls }
IsFallback(r) == r.primary_threat \in { "AI_NET_ERR", "AI_ERR" } /\ r.risk_score = 0 - 1

\* C7: with no credential configured the endpoint is never called, and the call
\* returns decision HOLD, threat NONE, score 0, confidence 0.5, whatever the
\* endpoint would have answered.
C7_NoCredentialFallback ==
    GEMINI_API_KEY = "" =>
        /\ gem_calls = 0
        /\ gem_pc = "returned" =>
              /\ gem_result.final_decision = "HOLD"
              /\ gem_result.primary_threat = "NONE"
              /\ gem_result.risk_score = 0
              /\ gem_result.confidence = 50

\* C7's case: a call without credential has returned while the endpoint would
\* have answered PASS.
C7_Witness ==
    /\ GEMINI_API_KEY = ""
    /\ gem_pc = "returned"
    /\ gem_payload_ok
    /\ Valid(gem_script[1]) /\ gem_script[1].ai.final_decision = "PASS"

\* C8: when answer k (k <= 3) is the first valid response and every answer
\* before it is a transient network/HTTP error, the call makes no more than k
\* calls and returns the decision of answer k.
C8_FirstValidResponseUsed ==
    (GEMINI_API_KEY # "" /\ gem_payload_ok) =>
        \A k \in 1..3 :
            ((\A j \in 1..(k - 1) : Transient(gem_script[j])) /\ Valid(gem_script[k])) =>
                /\ gem_calls <= k
                /\ gem_pc = "returned" =>
                      /\ gem_calls = k
                      /\ gem_result.final_decision = gem_script[k].ai.final_decision
                      /\ ~IsFallback(gem_result)

\* C8's case: the first answer was a network error, the second a valid REJECT,
\* the third would have been a valid PASS, and the call has returned.
C8_Witness ==
    /\ GEMINI_API_KEY # "" /\ gem_payload_ok
    /\ gem_script[1].kind = "NET_ERROR"
    /\ Valid(gem_script[2]) /\ gem_script[2].ai.final_decision = "REJECT"
    /\ Valid(gem_script[3]) /\ gem_script[3].ai.final_decision = "PASS"
    /\ gem_pc = "returned"

\* A malformed or empty answer is never what the call returns as its decision:
\* whatever is returned after such a last answer is the fixed fallback.
NeverReturnedAsDecision ==
    (gem_pc = "returned" /\ gem_calls >= 1
       /\ (Malformed(Answer(gem_script, gem_calls)) \/ Empty(Answer(gem_script, gem_calls))))
    => gem_result = NetErrFallback

\* A transient error is followed by another attempt while fewer than 3 were made.
TransientRetried ==
    (gem_pc = "returned" /\ gem_calls >= 1 /\ gem_calls < 3)
    => ~Transient(Answer(gem_script, gem_calls))

\* C9 as claimed: a malformed or empty answer is never returned as a decision;
\* when the call has received one and returns the fixed fallback, it has made
\* all 3 attempts; a transient error is followed by another attempt while
\* fewer than 3 were made.
C9_FallbackOnlyAfterBudget ==
    /\ NeverReturnedAsDecision
    /\ TransientRetried
    /\ (gem_pc = "returned" /\ gem_result = NetErrFallback
          /\ \E j \in Received : Malformed(gem_script[j]) \/ Empty(gem_script[j]))
       => gem_calls = 3

\* C9 amended: a malformed or empty answer is never returned as a decision; a
\* malformed answer, like a transient error, is followed by another attempt
\* while fewer than 3 were made; an empty answer ends the loop: the call makes
\* no further attempt and returns the fixed fallback.
C9_EmptyEndsLoopMalformedRetried ==
    /\ NeverReturnedAsDecision
    /\ TransientRetried
    /\ (gem_pc = "returned" /\ gem_calls >= 1 /\ gem_calls < 3)
       => ~Malformed(Answer(gem_script, gem_calls))
    /\ \A j \in Received :
          Empty(gem_script[j]) =>
              gem_calls = j /\ gem_pc = "returned" /\ gem_result = NetErrFallback

\* C9's case: a malformed first answer was followed by a second attempt, whose
\* empty answer ended the call with the fallback although a valid third answer
\* was to come.
C9_Witness ==
    /\ GEMINI_API_KEY # "" /\ gem_payload_ok
    /\ Malformed(gem_script[1]) /\ Empty(gem_script[2]) /\ Valid(gem_script[3])
    /\ gem_pc = "returned" /\ gem_calls = 2 /\ gem_result = NetErrFallback

\* C10: the call never makes more than 3 calls to the endpoint, never raises,
\* and always comes to return a decision.
C10_BoundedAndTerminates ==
    /\ [](gem_calls <= 3 /\ gem_pc # "raised")
    /\ <>(gem_pc = "returned" /\ gem_result # NoResult
            /\ gem_result.final_decision # "")

\* C10's case: three answers, none of them usable, each retried, and the call
\* has returned after the third.
C10_Witness ==
    /\ gem_pc = "returned"
    /\ gem_calls = 3
    /\ \A j \in 1..3 : Transient(gem_script[j]) \/ Malformed(gem_script[j])
    /\ gem_result = NetErrFallback

\* An answer the parsing accepts: a JSON object whose risk_score and
\* confidence, when given, are numbers.
Parsable(o) ==
    /\ o.kind = "OBJECT"
    /\ o.ai.risk_score.t # "str"
    /\ o.ai.confidence.t # "str"

\* C11: when the call was made with a credential and no attempt yielded a
\* parsable response, it returns final_decision HOLD and risk_score -1, with
\* primary_threat AI_NET_ERR, or AI_ERR when the request could not be built
\* (the exception outside the attempt loop); a fallback is never PASS or REJECT.
C11_FixedFallback ==
    (gem_pc = "returned" /\ GEMINI_API_KEY # "") =>
        /\ ~gem_payload_ok =>
              /\ gem_calls = 0
              /\ gem_result.final_decision = "HOLD"
              /\ gem_result.risk_score = 0 - 1
              /\ gem_result.primary_threat = "AI_ERR"
        /\ (gem_payload_ok /\ \A j \in Received : ~Parsable(gem_script[j])) =>
              /\ gem_result.final_decision = "HOLD"
              /\ gem_result.risk_score = 0 - 1
              /\ gem_result.primary_threat = "AI_NET_ERR"
        /\ gem_result.primary_threat \in { "AI_NET_ERR", "AI_ERR" } =>
              gem_result.final_decision \notin { "PASS", "REJECT" }

\* C11's case: three attempts were made, the answers were a network error, text
\* that is no JSON and an object whose risk_score is no number, and the call
\* has returned.
C11_Witness ==
    /\ GEMINI_API_KEY # "" /\ gem_payload_ok
    /\ gem_script[1].kind = "NET_ERROR"
    /\ gem_script[2].kind = "BAD_TEXT"
    /\ gem_script[3].kind = "OBJECT" /\ ~Parsable(gem_script[3])
    /\ gem_pc = "returned" /\ gem_calls = 3
    /\ gem_result.primary_threat = "AI_NET_ERR"

\* C12: every JSON object the model answers ends the call with a decision that
\* is one of PASS, HOLD, REJECT: the object's own decision when it is one of
\* them, HOLD otherwise; the object is never passed over for another attempt
\* or for the fallback because one of its fields is missing or invalid.
C12_DecisionInSchema ==
    (GEMINI_API_KEY # "" /\ gem_payload_ok) =>
        \A j \in Received :
            gem_script[j].kind = "OBJECT" =>
                /\ gem_calls = j
                /\ gem_pc = "returned"
                /\ gem_result.final_decision \in { "PASS", "HOLD", "REJECT" }
                /\ gem_result.primary_threat \notin { "AI_NET_ERR", "AI_ERR" }
                /\ gem_result.final_decision =
                      IF gem_script[j].ai.final_decision \in { "PASS", "HOLD", "REJECT" }
                      THEN gem_script[j].ai.final_decision ELSE "HOLD"

(***************************************************************************)
(* patch_withdrawal_ratio called on its own (core.py 112-137).             *)
(***************************************************************************)
\* Everything but the helper under study is at rest.
RestIdle ==
    /\ decisions = << >>
    /\ risk_features = [p \in Pairs |-> None]
    /\ GEMINI_API_KEY = ""
    /\ WorkersIdle
    /\ GemIdle

\* Column values of a feature row: absent, numbers on both sides of each
\* comparison of the sanitizer, and a text that is no number.
AmountPool == { None, Num(0), Num(1000), Num(0 - 50), Str("n/a") }
TotalPool ==
    { None, Num(0), Num(0 - 1), Num(50), Num(99), Num(100), Num(101), Num(10000),
      Str("n/a") }
RatioPool == { None, Num(60), Num(100), Str("n/a") }

InitSanitizer ==
    /\ RestIdle
    /\ unit_pc = "call"
    /\ unit_in \in { Features(a, t, r) : a \in AmountPool, t \in TotalPool, r \in RatioPool }
    /\ unit_out = None

Sanitize ==
    /\ unit_pc = "call"
    /\ unit_out' = patch_withdrawal_ratio(unit_in)
    /\ unit_pc' = "returned"
    /\ UNCHANGED << decisions, risk_features, GEMINI_API_KEY, workerVars, gemVars, unit_in >>

NextSanitizer == Sanitize

SpecSanitizer == InitSanitizer /\ [][NextSanitizer]_vars

(***************************************************************************)
(* The sanitizer's claims.                                                 *)
(***************************************************************************)
\* The three numbers parse: each is absent or a number.
NumbersParse(f) ==
    \A k \in { "withdrawal_amount", "withdrawal_ratio", "total_balance_sum" } :
        f[k].t \in { "none", "num" }
TotalMissingOrNotPositive(f) ==
    \/ f.total_balance_sum = None
    \/ (f.total_balance_sum.t = "num" /\ f.total_balance_sum.v <= 0)
IsFullDrain(f, source) ==
    f.withdrawal_ratio = Num(100) /\ f.withdrawal_ratio_source = Str(source)

\* C13 as claimed: for all features whose total balance is missing or <= 0 the
\* result has withdrawal_ratio 1.0 and source UNKNOWN_BALANCE.
C13_UnknownBalanceForAll ==
    (unit_pc = "returned" /\ TotalMissingOrNotPositive(unit_in))
    => IsFullDrain(unit_out, "UNKNOWN_BALANCE")

\* C13 amended: for all features whose amount is present, whose amount, ratio
\* and total balance parse, and whose total balance is missing or <= 0, the
\* result has withdrawal_ratio 1.0 and source UNKNOWN_BALANCE; with the amount
\* absent the source is BALANCE_CACHE and the ratio is left as it was; when a
\* number does not parse the features are returned unmodified.
C13_UnknownBalanceWhenAmountPresent ==
    (unit_pc = "returned" /\ TotalMissingOrNotPositive(unit_in)) =>
        /\ (NumbersParse(unit_in) /\ unit_in.withdrawal_amount # None)
              => IsFullDrain(unit_out, "UNKNOWN_BALANCE")
        /\ (NumbersParse(unit_in) /\ unit_in.withdrawal_amount = None)
              => /\ unit_out.withdrawal_ratio_source = Str("BALANCE_CACHE")
                 /\ unit_out.withdrawal_ratio = unit_in.withdrawal_ratio
        /\ ~NumbersParse(unit_in) => unit_out = unit_in

\* C13's case: amount 1000, total balance 0, an existing ratio of 0.6, sanitized.
C13_Witness ==
    /\ unit_pc = "returned"
    /\ unit_in = Features(Num(1000), Num(0), Num(60))
    /\ IsFullDrain(unit_out, "UNKNOWN_BALANCE")

AmountPositive(f) == f.withdrawal_amount.t = "num" /\ f.withdrawal_amount.v > 0
TotalBelowTenth(f) ==
    /\ AmountPositive(f)
    /\ f.total_balance_sum.t = "num"
    /\ 10 * f.total_balance_sum.v < f.withdrawal_amount.v

\* C14 as claimed: for all features with amount > 0 and total balance below
\* 0.1 x amount the result has ratio 1.0 and source SUSPICIOUS_TOTAL_BALANCE;
\* in every other case where the numbers parse and neither drain rule applies
\* the source is BALANCE_CACHE and the ratio is left as it was.
C14_SuspiciousForAllBelowTenth ==
    (unit_pc = "returned" /\ NumbersParse(unit_in)) =>
        /\ TotalBelowTenth(unit_in) => IsFullDrain(unit_out, "SUSPICIOUS_TOTAL_BALANCE")
        /\ (~TotalBelowTenth(unit_in)
              /\ ~(unit_in.withdrawal_amount # None /\ TotalMissingOrNotPositive(unit_in)))
           => /\ unit_out.withdrawal_ratio_source = Str("BALANCE_CACHE")
              /\ unit_out.withdrawal_ratio = unit_in.withdrawal_ratio

\* C14 amended: for all features whose numbers parse, with amount > 0 and a
\* total balance above 0 and below 0.1 x amount, the result has ratio 1.0 and
\* source SUSPICIOUS_TOTAL_BALANCE (a total balance <= 0 falls under the
\* first rule and gives UNKNOWN_BALANCE); in every other case where the
\* numbers parse and neither drain rule applies the source is BALANCE_CACHE
\* and the ratio is left as it was.
C14_SuspiciousWhenTotalPositive ==
    (unit_pc = "returned" /\ NumbersParse(unit_in)) =>
        /\ (TotalBelowTenth(unit_in) /\ unit_in.total_balance_sum.v > 0)
              => IsFullDrain(unit_out, "SUSPICIOUS_TOTAL_BALANCE")
        /\ (TotalBelowTenth(unit_in) /\ unit_in.total_balance_sum.v <= 0)
              => IsFullDrain(unit_out, "UNKNOWN_BALANCE")
        /\ (~TotalBelowTenth(unit_in)
              /\ ~(unit_in.withdrawal_amount # None /\ TotalMissingOrNotPositive(unit_in)))
           => /\ unit_out.withdrawal_ratio_source = Str("BALANCE_CACHE")
              /\ unit_out.withdrawal_ratio = unit_in.withdrawal_ratio

\* C14's case: amount 1000 and total balance 99, just below the tenth, with an
\* existing ratio of 0.6, sanitized.
C14_Witness ==
    /\ unit_pc = "returned"
    /\ unit_in = Features(Num(1000), Num(99), Num(60))
    /\ IsFullDrain(unit_out, "SUSPICIOUS_TOTAL_BALANCE")

(***************************************************************************)
(* evaluate_fixed_rules called on its own, on a list as load_dynamic_rules *)
(* returns it (core.py 261-288, 358-384).                                  *)
(***************************************************************************)
MaxRules == 3          \* ACTIVE rules in rt.risk_rules

RuleN(id, priority, expr, action, narrative) ==
    [ rule_id |-> id, rule_name |-> "R", priority |-> priority,
      logic_expression |-> expr, action |-> action, narrative |-> narrative ]

\* rt.risk_rules: rules of priority 1, 2 and 3, some of the same priority,
\* three of them with an expression that raises.
RulePool ==
    { RuleN(1, 1, Gt("withdrawal_amount", 5000), "REJECT", "large"),
      RuleN(2, 2, Gt("withdrawal_amount", 100), "HOLD", "medium"),
      RuleN(3, 1, Gt("undefined_name", 0), "REJECT", "undefined"),
      RuleN(4, 2, [op |-> "syntax", name |-> "", k |-> 0], "REJECT", "syntax"),
      RuleN(5, 1, Gt("withdrawal_ratio_source", 0), "PASS", "text"),
      RuleN(6, 3, Gt("withdrawal_amount", 0), "PASS", "any") }

\* ORDER BY priority ASC (core.py 273): rules of one priority in any order.
OrderedAnyhow(rules) == TRUE
OrderedByPriority(rules) ==
    \A i, j \in DOMAIN rules : i < j => rules[i].priority <= rules[j].priority

\* The lists rows = cur.fetchall() can be (core.py 275-279).
LoadedLists ==
    { l \in UNION { [1..n -> RulePool] : n \in 0..MaxRules } :
        /\ \A i, j \in DOMAIN l : i # j => l[i].rule_id # l[j].rule_id
        /\ OrderedByPriority(l) }

\* The features the rules are evaluated on: sanitized rows, and a row whose
\* amount is absent.
RuleFeatures ==
    { patch_withdrawal_ratio(Features(Num(6000), Num(10000), Num(60))),
      patch_withdrawal_ratio(Features(Num(1000), Num(0), None)),
      Features(None, None, None) }

InitRules ==
    /\ RestIdle
    /\ unit_pc = "eval"
    /\ unit_in \in { [features |-> f, rules |-> l] : f \in RuleFeatures, l \in LoadedLists }
    /\ unit_out = [i |-> 0, ctx |-> None, skipped |-> {}]

\* One pass of for rule in rules, or the return after the loop (core.py 366-384).
EvalRule ==
    /\ unit_pc = "eval"
    /\ LET f == unit_in.features
           l == unit_in.rules
           i == unit_out.i
       IN  IF i = Len(l)
           THEN /\ unit_out' = [unit_out EXCEPT !.ctx = NotTriggered]
                /\ unit_pc' = "returned"
           ELSE IF EvalRaises(f, l[i + 1].logic_expression)
           THEN IF RuleErrorCaught(ErrorOf(f, l[i + 1].logic_expression))
                THEN /\ unit_out' = [unit_out EXCEPT
                                        !.i = i + 1,
                                        !.skipped = @ \cup { l[i + 1].rule_id }]
                     /\ unit_pc' = unit_pc
                ELSE /\ unit_out' = [unit_out EXCEPT !.i = i + 1]
                     /\ unit_pc' = "raised"
           ELSE IF EvalTrue(f, l[i + 1].logic_expression)
           THEN /\ unit_out' = [unit_out EXCEPT !.i = i + 1, !.ctx = Triggered(l[i + 1])]
                /\ unit_pc' = "returned"
           ELSE /\ unit_out' = [unit_out EXCEPT !.i = i + 1]
                /\ unit_pc' = unit_pc
    /\ UNCHANGED << decisions, risk_features, GEMINI_API_KEY, workerVars, gemVars, unit_in >>

NextRules == EvalRule

SpecRules == InitRules /\ [][NextRules]_vars

\* The loop returns what the function computes.
EvaluateAgrees ==
    unit_pc = "returned" =>
        unit_out.ctx = evaluate_fixed_rules(unit_in.features, unit_in.rules)

(***************************************************************************)
(* The rule engine's claims.                                               *)
(***************************************************************************)
\* The expression of the rule evaluates true on the features: the feature
\* named is a number (0 when absent) above the rule's threshold.
Matches(f, rule) ==
    LET e == rule.logic_expression
    IN  /\ e.op = "gt"
        /\ e.name \in DOMAIN f
        /\ f[e.name].t \in { "none", "num" }
        /\ (IF f[e.name].t = "none" THEN 0 ELSE f[e.name].v) > e.k
Raises(f, rule) ==
    LET e == rule.logic_expression
    IN  \/ e.op # "gt"
        \/ e.name \notin DOMAIN f
        \/ f[e.name].t = "str"
IsContextOf(ctx, rule) ==
    /\ ctx.triggered
    /\ ctx.decision = rule.action
    /\ ctx.rule_id = rule.rule_id
    /\ ctx.narrative = << "Rule #", rule.rule_id, rule.narrative >>

ExpectedWithoutRaising(f, l) ==
    LET kept == SelectSeq(l, LAMBDA r : ~Raises(f, r))
        hits == { i \in DOMAIN kept : Matches(f, kept[i]) }
    IN  IF hits = {} THEN [hit |-> FALSE, rule |-> None]
        ELSE [hit |-> TRUE, rule |-> kept[CHOOSE i \in hits : \A j \in hits : i <= j]]

\* C16: evaluate never raises; a rule whose expression raises is skipped and
\* the rules behind it are still evaluated; what is returned is a triggered or
\* a not-triggered context, the one the list without its raising rules gives.
C16_RaisingRulesSkipped ==
    /\ unit_pc \in { "eval", "returned" }
    /\ unit_pc = "returned" =>
          LET x == ExpectedWithoutRaising(unit_in.features, unit_in.rules)
          IN  /\ unit_out.ctx.triggered \in BOOLEAN
              /\ x.hit => IsContextOf(unit_out.ctx, x.rule)
              /\ ~x.hit => unit_out.ctx.triggered = FALSE
              /\ \A i \in 1..unit_out.i :
                    Raises(unit_in.features, unit_in.rules[i])
                        => unit_in.rules[i].rule_id \in unit_out.skipped

\* C16's case: a rule with an undefined name and a rule that compares a text
\* with a number were skipped, and the rule behind them was evaluated and hit.
C16_Witness ==
    /\ unit_pc = "returned"
    /\ Len(unit_in.rules) = 3
    /\ unit_in.rules[1].rule_id = 3 /\ Raises(unit_in.features, unit_in.rules[1])
    /\ unit_in.rules[2].rule_id = 5 /\ Raises(unit_in.features, unit_in.rules[2])
    /\ unit_out.skipped = { 3, 5 }
    /\ IsContextOf(unit_out.ctx, unit_in.rules[3])

(***************************************************************************)
(* load_dynamic_rules called again and again in one process               *)
(* (core.py 261-288).                                                      *)
(***************************************************************************)
MaxLoads == 3          \* calls of load_dynamic_rules in the process

\* What rt.risk_rules may hold at the time of a load.
StoreLists == { l \in LoadedLists : Len(l) <= 1 }

\* except Exception as exc (core.py 286-288): the connection or the query failed.
LoadErrorCaught(exc) == exc \in { "OperationalError", "InterfaceError" }

InitCache ==
    /\ RestIdle
    /\ unit_pc = "idle"
    /\ unit_in = None
    /\ unit_out = << >>

\* One call: kind is "cached" (the fresh cache is returned, no query), "loaded"
\* (the query answered) or "failed" (the query raised).
Load ==
    /\ unit_pc = "idle"
    /\ Len(unit_out) < MaxLoads
    /\ \E table \in StoreLists, fresh \in BOOLEAN, ok \in BOOLEAN,
          exc \in { "OperationalError", "InterfaceError" } :
          LET cache == _RULES_CACHE[1]
              ld    == LoadRules(cache, fresh, ok, table)
              kind  == IF cache.loaded /\ fresh THEN "cached"
                       ELSE IF ok THEN "loaded" ELSE "failed"
          IN  /\ unit_in' = table
              /\ IF kind = "failed" /\ ~LoadErrorCaught(exc)
                 THEN /\ unit_pc' = "raised"
                      /\ UNCHANGED << unit_out, _RULES_CACHE >>
                 ELSE /\ unit_pc' = unit_pc
                      /\ unit_out' = Append(unit_out, [kind |-> kind, ret |-> ld.rules])
                      /\ _RULES_CACHE' = [_RULES_CACHE EXCEPT ![1] = ld.cache]
    /\ UNCHANGED << decisions, risk_features, GEMINI_API_KEY, pc, rows, idx,
                    total_processed, reported, select_ok, outcome, gemVars >>

NextCache == Load

SpecCache == InitCache /\ [][NextCache]_vars

(***************************************************************************)
(* The rule cache's claim.                                                 *)
(***************************************************************************)
\* The most recent successful load before call i, 0 when there is none.
LastLoaded(i) ==
    LET S == { j \in 1..(i - 1) : unit_out[j].kind = "loaded" }
    IN  IF S = {} THEN 0 ELSE CHOOSE j \in S : \A k \in S : k <= j

\* C17: load_dynamic_rules never raises, and a load whose store query fails
\* returns exactly the list of the most recent successful load, however many
\* failed and successful loads came before it and whatever the store holds now.
C17_LastKnownGoodServed ==
    /\ unit_pc # "raised"
    /\ \A i \in DOMAIN unit_out :
          (unit_out[i].kind = "failed" /\ LastLoaded(i) # 0)
          => unit_out[i].ret = unit_out[LastLoaded(i)].ret

\* C17's case: a non-empty list was loaded, then two refreshes in a row failed
\* while the store held another list.
C17_Witness ==
    /\ Len(unit_out) = 3
    /\ unit_out[1].kind = "loaded" /\ unit_out[1].ret # << >>
    /\ unit_out[2].kind = "failed"
    /\ unit_out[3].kind = "failed"
    /\ unit_in # unit_out[1].ret
    /\ unit_out[3].ret = unit_out[1].ret

(***************************************************************************)
(* refresh_sanctions_and_age called on its own (core.py 139-214).          *)
(***************************************************************************)
\* max_wait as index.py 76 passes it and as the default is.
max_wait == 5

\* The part of a feature row the poller reads and writes.
PollFeatures(chain, address, sanctions_status, age_status) ==
    [ chain |-> chain, destination_address |-> address,
      sanctions_status |-> sanctions_status, age_status |-> age_status,
      is_sanctioned |-> None, destination_age_hours |-> None ]

\* features.get(k).
Get(f, k) == IF k \in DOMAIN f THEN f[k] ELSE None

\* not x, for a text column: absent or empty.
NotText(x) == x = None \/ x = Str("")

\* The two early returns (core.py 150-157).
ShortCircuitAbsentOnly(f) ==
    NotText(Get(f, "chain")) \/ NotText(Get(f, "destination_address"))
ShortCircuit(f) ==
    \/ NotText(Get(f, "chain")) \/ NotText(Get(f, "destination_address"))
    \/ (Get(f, "sanctions_status") = Str("CHECKED") /\ Get(f, "age_status") = Str("CHECKED"))

\* A row of rt.dim_sanctions_address / rt.dim_destination_age: none, one that
\* is not CHECKED yet, a CHECKED one, and a CHECKED age row without hours.
NoRow == [status |-> None, value |-> None]
SanctionRows ==
    { NoRow, [status |-> Str("PENDING"), value |-> None],
      [status |-> Str("CHECKED"), value |-> Num(1)] }
AgeRows ==
    { NoRow, [status |-> Str("PENDING"), value |-> None],
      [status |-> Str("CHECKED"), value |-> Num(3)],
      [status |-> Str("CHECKED"), value |-> None] }

\* bool(is_sanctioned) (core.py 188).
Bool(x) == [t |-> "bool", v |-> ~(x = None \/ x = Num(0))]

\* The features after the sanctions row was read (core.py 185-190).
WithSanctions(f, row) ==
    IF row.status = Str("CHECKED")
    THEN [f EXCEPT !.is_sanctioned = Bool(row.value), !.sanctions_status = row.status]
    ELSE f
\* int(dest_age_hours) raises on a CHECKED row without hours (core.py 195).
AgeRaises(row) == row.status = Str("CHECKED") /\ ~IsNum(row.value)
WithAge(f, row) ==
    IF row.status = Str("CHECKED") /\ ~AgeRaises(row)
    THEN [f EXCEPT !.destination_age_hours = row.value, !.age_status = row.status]
    ELSE f

InitPoller ==
    /\ RestIdle
    /\ unit_pc = "call"
    /\ unit_in \in
          { PollFeatures(c, a, s, g) :
              c \in { None, Str(""), Str("ETH") },
              a \in { None, Str("0xabc") },
              s \in { None, Str("PENDING"), Str("CHECKED") },
              g \in { None, Str("PENDING"), Str("CHECKED") } }
    /\ unit_out = [features |-> unit_in, attempt |-> 0, reads |-> 0, sleeps |-> 0,
                    tries |-> 0, seen |-> FALSE, failed |-> FALSE]

\* Lines 148-162: the early returns and the connection; a failing connection is
\* caught by the except of line 211.
PollCall ==
    /\ unit_pc = "call"
    /\ \E connOk \in BOOLEAN :
          /\ unit_pc' = IF ShortCircuit(unit_in) \/ ~connOk THEN "returned" ELSE "poll"
          /\ unit_out' = [unit_out EXCEPT !.failed = ~ShortCircuit(unit_in) /\ ~connOk]
    /\ UNCHANGED << decisions, risk_features, GEMINI_API_KEY, workerVars, gemVars, unit_in >>

\* updated (core.py 183-198): either row read reports CHECKED.
UpdatedBothNeeded(sanc, age) == sanc.status = Str("CHECKED") /\ age.status = Str("CHECKED")
Updated(sanc, age) == sanc.status = Str("CHECKED") \/ age.status = Str("CHECKED")

\* One pass of for attempt in range(max_wait) (core.py 164-208): the two
\* reads, the copy of what is CHECKED, the break or the sleep.  A failing query
\* or a failing int() leaves through the except with what was copied so far.
\* tries counts the passes begun, seen is whether a row read so far reported
\* CHECKED, failed whether the connection, a read or int() raised.
PollAttempt ==
    /\ unit_pc = "poll"
    /\ unit_out.attempt < max_wait
    /\ \E sanc \in SanctionRows, age \in AgeRows, failAt \in 0..2 :
          LET f == unit_out.features
          IN  IF failAt = 1
              THEN /\ unit_out' = [unit_out EXCEPT !.reads = @ + 1, !.tries = @ + 1,
                                                   !.failed = TRUE]
                   /\ unit_pc' = "returned"
              ELSE IF failAt = 2
              THEN /\ unit_out' = [unit_out EXCEPT !.reads = @ + 2, !.tries = @ + 1,
                                     !.failed = TRUE,
                                     !.seen = @ \/ sanc.status = Str("CHECKED")]
                   /\ unit_pc' = "returned"
              ELSE IF AgeRaises(age)
              THEN /\ unit_out' = [unit_out EXCEPT !.reads = @ + 2, !.tries = @ + 1,
                                                   !.failed = TRUE, !.seen = TRUE,
                                                   !.features = WithSanctions(f, sanc)]
                   /\ unit_pc' = "returned"
              ELSE IF Updated(sanc, age)
              THEN /\ unit_out' = [unit_out EXCEPT
                                     !.reads = @ + 2, !.tries = @ + 1, !.seen = TRUE,
                                     !.features = WithAge(WithSanctions(f, sanc), age)]
                   /\ unit_pc' = "returned"
              ELSE /\ unit_out' = [unit_out EXCEPT !.reads = @ + 2, !.sleeps = @ + 1,
                                     !.tries = @ + 1, !.attempt = @ + 1,
                                     !.seen = @ \/ sanc.status = Str("CHECKED")
                                                \/ age.status = Str("CHECKED")]
                   /\ unit_pc' = IF unit_out.attempt + 1 = max_wait
                                 THEN "returned" ELSE "poll"
    /\ UNCHANGED << decisions, risk_features, GEMINI_API_KEY, workerVars, gemVars, unit_in >>

NextPoller == PollCall \/ PollAttempt

SpecPoller == InitPoller /\ [][NextPoller]_vars

\* The call runs to its end: each pass is two reads and a sleep of delay
\* seconds, and nothing else runs in the process meanwhile.
SpecPollerFair == SpecPoller /\ WF_vars(NextPoller)

(***************************************************************************)
(* The poller's claim.                                                     *)
(***************************************************************************)
BothChecked(f) == f.sanctions_status = Str("CHECKED") /\ f.age_status = Str("CHECKED")
ChainOrAddressAbsent(f) ==
    f.chain \in { None, Str("") } \/ f.destination_address \in { None, Str("") }

\* C18: when sanctions_status and age_status are both CHECKED already, or chain
\* or destination_address is absent, the poller never reads the store, never
\* sleeps, and returns the features as they were given.
C18_ShortCircuit ==
    (BothChecked(unit_in) \/ ChainOrAddressAbsent(unit_in)) =>
        /\ unit_pc \in { "call", "returned" }
        /\ unit_out.reads = 0
        /\ unit_out.sleeps = 0
        /\ unit_out.features = unit_in

\* C18's case (scenario C): chain and address are there, both statuses are
\* CHECKED, and the call has returned.
C18_Witness ==
    /\ unit_pc = "returned"
    /\ unit_in.chain = Str("ETH") /\ unit_in.destination_address = Str("0xabc")
    /\ BothChecked(unit_in)
    /\ unit_out.reads = 0 /\ unit_out.sleeps = 0

(***************************************************************************)
(* log_decision_to_db called for one pair after the other, as the tail of  *)
(* _process_single_txn calls it (core.py 291-351, index.py 113-152).       *)
(***************************************************************************)
MaxLogCalls == 3       \* pairs whose decision is logged

\* The result dicts a caller may pass: the confidence absent, None, a number,
\* a text that reads as a number, a text that does not; the risk_score
\* absent, in range, 0, the sentinel -1, or a text.
LogResults ==
    { [ decision |-> "HOLD", primary_threat |-> "NONE", risk_score |-> sc, confidence |-> c ] :
        sc \in { Missing, Num(85), Num(0), Num(0 - 1), Str("high") },
        c \in { Missing, None, Num(90), Str("0.9"), Str("high") } }

\* Where the write can fail: get_db_conn, cur.execute, conn.commit
\* (core.py 304, 332, 347).
LogFailures == { "connect", "execute", "commit" }

\* try: ... except Exception as exc (core.py 303, 350-351).
LogErrorCaughtExecuteOnly(at) == at = "execute"
LogErrorCaught(at) == at \in { "connect", "execute", "commit" }

InitLogger ==
    /\ RestIdle
    /\ unit_pc = "idle"
    /\ unit_in = None
    /\ unit_out = [oks |-> << >>, before |-> << >>, total_processed |-> 0]

\* The decision of the next pair is logged and the caller goes on to the next
\* pair (index.py 125-152, 169-172): whatever became of the write,
\* _process_single_txn returns True (line 152) and handler counts the pair.
LogCall ==
    /\ unit_pc = "idle"
    /\ Len(unit_out.oks) < MaxLogCalls
    /\ \E result \in LogResults, at \in LogFailures \cup { "none" } :
          LET p == PairOf(Len(unit_out.oks) + 1)
          IN  /\ unit_in' = result
              /\ IF at # "none" /\ ~LogErrorCaught(at)
                 THEN /\ unit_pc' = "raised"
                      /\ UNCHANGED << decisions, unit_out >>
                 ELSE /\ unit_pc' = unit_pc
                      /\ decisions' = log_decision_to_db(decisions, p, result,
                                                         "AI_AGENT_REVIEW", at = "none")
                      /\ unit_out' = [oks |-> Append(unit_out.oks, at = "none"),
                                      before |-> decisions,
                                      total_processed |->
                                          IF Counts("True")
                                          THEN unit_out.total_processed + 1
                                          ELSE unit_out.total_processed]
    /\ UNCHANGED << risk_features, GEMINI_API_KEY, workerVars, gemVars >>

NextLogger == LogCall

SpecLogger == InitLogger /\ [][NextLogger]_vars

(***************************************************************************)
(* The decision logger's claims.                                           *)
(***************************************************************************)
\* C19: a failing storage write is caught inside log_decision_to_db: the call
\* returns to its caller, nothing is written by it, and the decisions of the
\* pairs that follow are still logged; no call of the logger ever raises.
C19_WriteFailureContained ==
    /\ unit_pc = "idle"
    /\ \A i \in DOMAIN unit_out.oks :
          Cardinality({ k \in DOMAIN decisions :
                          << decisions[k].user_code, decisions[k].txn_id >> = PairOf(i) })
              = IF unit_out.oks[i] THEN 1 ELSE 0
    /\ (unit_out.oks # << >> /\ ~unit_out.oks[Len(unit_out.oks)])
          => decisions = unit_out.before

\* C19's case: the write of the first pair failed and the decisions of the
\* second and third pair were logged after it.
C19_Witness ==
    /\ unit_out.oks = << FALSE, TRUE, TRUE >>
    /\ Len(decisions) = 2
    /\ << decisions[2].user_code, decisions[2].txn_id >> = PairOf(3)

\* The row the last call has written.
LastRow == decisions[Len(decisions)]
Logged == unit_out.oks # << >> /\ unit_out.oks[Len(unit_out.oks)]
ConfidenceParses(c) == c.t = "num" \/ c = Str("0.9")
ConfidenceOf(c) == IF c.t = "num" THEN c.v ELSE 90
\* risk_score/100 when the score is a number >= 0 (an absent score is 0),
\* 1.0 otherwise; in hundredths.
FromScore(sc) ==
    IF sc.t = "missing" THEN 0
    ELSE IF sc.t = "num" /\ sc.v >= 0 THEN sc.v
    ELSE 100

\* C20 as claimed: the logged confidence is the caller's confidence when it is
\* a parseable float; when it is absent or not parseable it is risk_score/100
\* when risk_score >= 0 and 1.0 otherwise; it is never negative.
C20_ConfidenceFromScoreUnlessParseable ==
    Logged =>
        /\ LastRow.confidence >= 0
        /\ LastRow.confidence =
              IF unit_in.confidence.t # "missing" /\ ConfidenceParses(unit_in.confidence)
              THEN ConfidenceOf(unit_in.confidence)
              ELSE FromScore(unit_in.risk_score)

\* C20 amended: the logged confidence is the caller's confidence when it is a
\* parseable float, 0.7 when the caller gave a confidence that does not parse,
\* and, when the caller gave none, risk_score/100 when risk_score >= 0 and 1.0
\* otherwise; it is never negative.
C20_ConfidenceDefaults ==
    Logged =>
        /\ LastRow.confidence >= 0
        /\ LastRow.confidence =
              IF unit_in.confidence.t = "missing" THEN FromScore(unit_in.risk_score)
              ELSE IF ConfidenceParses(unit_in.confidence)
              THEN ConfidenceOf(unit_in.confidence)
              ELSE 70

\* C20's case: no confidence was given and the score is the sentinel -1; the
\* row written has confidence 1.0.
C20_Witness ==
    /\ Logged
    /\ unit_in.confidence = Missing
    /\ unit_in.risk_score = Num(0 - 1)
    /\ LastRow.confidence = 100

(***************************************************************************)
(* get_db_conn called again and again in one process (core.py 23-78).      *)
(* unit_in is core._DB_CONN; unit_out is the last call: the global before  *)
(* it, what it returned, whether it rolled back, the connections opened.   *)
(***************************************************************************)
MaxConnCalls == 3      \* calls of get_db_conn in the process

\* A psycopg2 connection: which one it is, its closed attribute (as closed
\* != 0) and its get_transaction_status().
Conn(id, closed, status) == [id |-> id, closed |-> closed, status |-> status]
NoConn == Conn(0, TRUE, "NONE")
TransactionStatus == { "IDLE", "INTRANS", "INERROR", "UNKNOWN" }

\* status == TRANSACTION_STATUS_INERROR (core.py 42).
NeedsRollbackNever(status) == FALSE
NeedsRollback(status) == status = "INERROR"

\* get_db_conn on the global conn.  checkOk: the status check and the
\* rollback go through (the link is healthy); connectOk: psycopg2.connect
\* succeeds; fresh: the id of a new connection.  Gives the global afterwards,
\* the handle returned (NoConn when connect raised), and what was done.
get_db_conn(conn, checkOk, connectOk, fresh) ==
    LET new == [ global |-> IF connectOk THEN Conn(fresh, FALSE, "IDLE") ELSE NoConn,
                 ret |-> IF connectOk THEN Conn(fresh, FALSE, "IDLE") ELSE NoConn,
                 raised |-> ~connectOk, rolled |-> FALSE, opened |-> connectOk ]
    IN  IF conn = NoConn THEN new
        ELSE IF conn.closed THEN new
        ELSE IF ~checkOk THEN new
        ELSE IF NeedsRollback(conn.status)
        THEN [ global |-> [conn EXCEPT !.status = "IDLE"],
               ret |-> [conn EXCEPT !.status = "IDLE"],
               raised |-> FALSE, rolled |-> TRUE, opened |-> FALSE ]
        ELSE IF conn.status = "UNKNOWN" THEN new
        ELSE [ global |-> conn, ret |-> conn, raised |-> FALSE, rolled |-> FALSE,
               opened |-> FALSE ]

InitConn ==
    /\ RestIdle
    /\ unit_pc = "idle"
    /\ unit_in = NoConn
    /\ unit_out = [ calls |-> 0, before |-> NoConn, ret |-> NoConn, raised |-> FALSE,
                    rolled |-> FALSE, healthy |-> TRUE, opened |-> 0 ]

GetConn ==
    /\ unit_pc = "idle"
    /\ unit_out.calls < MaxConnCalls
    /\ \E checkOk \in BOOLEAN, connectOk \in BOOLEAN :
          LET r == get_db_conn(unit_in, checkOk, connectOk, unit_out.opened + 1)
          IN  /\ unit_in' = r.global
              /\ unit_out' = [ calls |-> unit_out.calls + 1, before |-> unit_in,
                               ret |-> r.ret, raised |-> r.raised, rolled |-> r.rolled,
                               healthy |-> checkOk,
                               opened |-> unit_out.opened + (IF r.opened THEN 1 ELSE 0) ]
    /\ UNCHANGED << decisions, risk_features, GEMINI_API_KEY, workerVars, gemVars, unit_pc >>

\* What the callers' statements and the link do to the connection between two
\* calls: a statement leaves a transaction open or fails, a commit ends it,
\* the link breaks, the connection is closed.
ConnEvent ==
    /\ unit_pc = "idle"
    /\ unit_in # NoConn
    /\ ~unit_in.closed
    /\ unit_out.calls < MaxConnCalls
    /\ \E c \in BOOLEAN, st \in TransactionStatus :
          /\ Conn(unit_in.id, c, st) # unit_in
          /\ unit_in' = Conn(unit_in.id, c, st)
    /\ UNCHANGED << decisions, risk_features, GEMINI_API_KEY, workerVars, gemVars,
                    unit_pc, unit_out >>

NextConn == GetConn \/ ConnEvent

SpecConn == InitConn /\ [][NextConn]_vars

(***************************************************************************)
(* The storage connection's claim.                                         *)
(***************************************************************************)
\* The last call has returned a handle.
Returned == unit_out.calls > 0 /\ ~unit_out.raised

\* C21: a connection that was open and in the aborted-transaction state, on a
\* healthy link, is rolled back by the next call and the same handle is
\* returned, no connection being opened; a connection that was closed or whose
\* status was unknown is not returned again: the handle returned is a new one;
\* no call returns a handle that is closed or in the aborted-transaction state.
C21_RollbackAndReuse ==
    Returned =>
        /\ (unit_out.before # NoConn /\ ~unit_out.before.closed
              /\ unit_out.before.status = "INERROR" /\ unit_out.healthy)
           => /\ unit_out.ret.id = unit_out.before.id
              /\ unit_out.rolled
              /\ unit_out.opened = unit_out.before.id
              /\ unit_in.id = unit_out.before.id
        /\ (unit_out.before # NoConn
              /\ (unit_out.before.closed \/ unit_out.before.status = "UNKNOWN"))
           => /\ unit_out.ret.id # unit_out.before.id
              /\ unit_out.ret.id = unit_out.opened
        /\ ~unit_out.ret.closed
        /\ unit_out.ret.status # "INERROR"

\* C21's case: the first connection was left in the aborted-transaction state
\* and the next call returned that same connection, rolled back.
C21_Witness ==
    /\ Returned
    /\ unit_out.before = Conn(1, FALSE, "INERROR")
    /\ unit_out.healthy
    /\ unit_out.ret = Conn(1, FALSE, "IDLE")
    /\ unit_out.opened = 1

(***************************************************************************)
(* The poller's bounded polling (SpecPollerFair).                          *)
(***************************************************************************)
\* The call went past the early returns of lines 150-157.
Polled == ~ShortCircuit(unit_in)

\* What a call may have copied: a value differs from the one given only
\* together with a CHECKED status; nothing else differs.
OnlyCheckedCopied ==
    LET f == unit_out.features
    IN  /\ f.chain = unit_in.chain
        /\ f.destination_address = unit_in.destination_address
        /\ f.sanctions_status \in { unit_in.sanctions_status, Str("CHECKED") }
        /\ f.age_status \in { unit_in.age_status, Str("CHECKED") }
        /\ f.is_sanctioned # unit_in.is_sanctioned => f.sanctions_status = Str("CHECKED")
        /\ f.destination_age_hours # unit_in.destination_age_hours
              => f.age_status = Str("CHECKED")

\* At most max_wait attempts, none after one that reported CHECKED, only
\* CHECKED values copied, nothing copied while none reported CHECKED.
BoundedPolling ==
    /\ unit_out.tries <= max_wait
    /\ unit_pc \in { "call", "poll", "returned" }
    /\ unit_out.seen => unit_pc = "returned"
    /\ OnlyCheckedCopied
    /\ ~unit_out.seen => unit_out.features = unit_in

\* C22 as stated: for any sequence of store answers the poller makes at most
\* max_wait attempts and returns; no attempt follows the first one in which a
\* record reports CHECKED, and only CHECKED values are copied; a call in which
\* no attempt reports CHECKED returns after exactly max_wait attempts with the
\* features unchanged and without raising, also when a store read fails.
C22_ExactlyMaxWaitAlsoOnFailure ==
    /\ [](BoundedPolling
          /\ ((unit_pc = "returned" /\ Polled /\ ~unit_out.seen)
                => unit_out.tries = max_wait))
    /\ <>(unit_pc = "returned")

\* C22 amended: as above, but a call in which no attempt reports CHECKED
\* returns after exactly max_wait attempts only if no store access failed; when
\* the connection or a read fails the call stops polling at once and returns,
\* without raising, after fewer attempts (none when the connection failed).
C22_ExactlyMaxWaitUnlessFailure ==
    /\ [](BoundedPolling
          /\ ((unit_pc = "returned" /\ Polled /\ ~unit_out.seen /\ ~unit_out.failed)
                => (unit_out.tries = max_wait /\ unit_out.sleeps = max_wait))
          /\ ((unit_pc = "returned" /\ Polled /\ ~unit_out.seen /\ unit_out.failed)
                => (unit_out.tries = unit_out.sleeps + 1 \/ unit_out.tries = 0)))
    /\ <>(unit_pc = "returned")

\* C22's case: max_wait attempts were made, none reported CHECKED, and the call
\* returned the features it was given.
C22_Witness ==
    /\ unit_pc = "returned"
    /\ Polled
    /\ ~unit_out.seen /\ ~unit_out.failed
    /\ unit_out.tries = max_wait
    /\ unit_out.reads = 2 * max_wait
    /\ unit_out.features = unit_in

(***************************************************************************)
(* load_dynamic_rules against the clock (core.py 19-20, 261-288,           *)
(* config.py 47).  unit_in is the clock time.time(), core._LAST_CACHE_TIME *)
(* and the number of store queries made; _RULES_CACHE[1] is the cache;     *)
(* unit_out is the list of the calls made.                                 *)
(***************************************************************************)
RULE_CACHE_TTL == 300
MaxTicks == 3          \* times the clock is seen to advance

\* The clock when the process starts: later than the epoch by more than a TTL.
StartClock == RULE_CACHE_TTL + RULE_CACHE_TTL + 1

\* time.time() - _LAST_CACHE_TIME < cfg.RULE_CACHE_TTL (core.py 267).
FreshInclusive(now, last) == now - last <= RULE_CACHE_TTL
Fresh(now, last) == now - last < RULE_CACHE_TTL

\* What rt.risk_rules may hold at the time of a load: nothing, or one rule.
ExpiryLists == { << >>, RulesTable }

InitCacheTTL ==
    /\ RestIdle
    /\ unit_pc = "idle"
    /\ unit_in = [ now |-> StartClock, last |-> 0, queries |-> 0, ticks |-> 0 ]
    /\ unit_out = << >>

\* Time passes between two calls.
Tick ==
    /\ unit_pc = "idle"
    /\ unit_in.ticks < MaxTicks
    /\ \E d \in { 1, RULE_CACHE_TTL - 1 } :
          unit_in' = [unit_in EXCEPT !.now = @ + d, !.ticks = @ + 1]
    /\ UNCHANGED << decisions, risk_features, GEMINI_API_KEY, workerVars, gemVars,
                    unit_pc, unit_out >>

\* One call at time unit_in.now; the query, when made, takes took seconds, and
\* _LAST_CACHE_TIME is read off the clock after it (core.py 283).
LoadAt ==
    /\ unit_pc = "idle"
    /\ Len(unit_out) < MaxLoads
    /\ \E table \in ExpiryLists, ok \in BOOLEAN, took \in 0..1 :
          LET cache  == _RULES_CACHE[1]
              fresh  == Fresh(unit_in.now, unit_in.last)
              ld     == LoadRules(cache, fresh, ok, table)
              hit    == cache.loaded /\ fresh
              after  == IF hit THEN unit_in.now ELSE unit_in.now + took
          IN  /\ _RULES_CACHE' = [_RULES_CACHE EXCEPT ![1] = ld.cache]
              /\ unit_in' = [unit_in EXCEPT
                               !.now = after,
                               !.last = IF ~hit /\ ok THEN after ELSE @,
                               !.queries = IF hit THEN @ ELSE @ + 1]
              /\ unit_out' = Append(unit_out,
                    [ at |-> unit_in.now, cacheBefore |-> cache,
                      lastBefore |-> unit_in.last, queriesBefore |-> unit_in.queries,
                      table |-> table, answered |-> ok, ret |-> ld.rules,
                      cacheAfter |-> ld.cache,
                      lastAfter |-> IF ~hit /\ ok THEN after ELSE unit_in.last,
                      queriesAfter |-> IF hit THEN unit_in.queries
                                       ELSE unit_in.queries + 1,
                      returnedAt |-> after ])
    /\ UNCHANGED << decisions, risk_features, GEMINI_API_KEY, pc, rows, idx,
                    total_processed, reported, select_ok, outcome, gemVars, unit_pc >>

NextCacheTTL == Tick \/ LoadAt

SpecCacheTTL == InitCacheTTL /\ [][NextCacheTTL]_vars

(***************************************************************************)
(* The rule cache's expiry.                                                *)
(***************************************************************************)
\* Call c was made less than the TTL after the load that filled the cache.
WithinTTL(c) == c.cacheBefore.loaded /\ c.at - c.lastBefore < 300
\* Call c was made with a filled cache, at or after the expiry of the TTL.
Expired(c) == c.cacheBefore.loaded /\ c.at - c.lastBefore >= 300

\* C23: a call within the TTL (300 s) of the last successful load returns the
\* cached list, empty or not, without querying the store and changes nothing;
\* a call at or after the expiry queries the store; when the store answers the
\* cached list becomes the store's list and the timestamp the time of the load,
\* when it fails the cached list and the timestamp stay as they were.
C23_CacheServedWithinTTL ==
    \A i \in DOMAIN unit_out :
        LET c == unit_out[i]
        IN  /\ WithinTTL(c) =>
                 /\ c.ret = c.cacheBefore.rules
                 /\ c.queriesAfter = c.queriesBefore
                 /\ c.cacheAfter = c.cacheBefore
                 /\ c.lastAfter = c.lastBefore
            /\ Expired(c) =>
                 /\ c.queriesAfter = c.queriesBefore + 1
                 /\ c.answered =>
                      /\ c.ret = c.table
                      /\ c.cacheAfter = [loaded |-> TRUE, rules |-> c.table]
                      /\ c.lastAfter = c.returnedAt
                      /\ c.lastAfter >= c.at
                 /\ ~c.answered =>
                      /\ c.cacheAfter = c.cacheBefore
                      /\ c.lastAfter = c.lastBefore

\* C23's case: an empty list was loaded; a call one second before the expiry
\* was served the empty list from the cache; the call at the expiry queried the
\* store and replaced the list and the timestamp.
C23_Witness ==
    /\ Len(unit_out) = 3
    /\ ~unit_out[1].cacheBefore.loaded /\ unit_out[1].answered
    /\ unit_out[1].ret = << >>
    /\ WithinTTL(unit_out[2])
    /\ unit_out[2].at - unit_out[2].lastBefore = 299
    /\ unit_out[2].ret = << >>
    /\ unit_out[2].queriesAfter = 1
    /\ Expired(unit_out[3])
    /\ unit_out[3].at - unit_out[3].lastBefore = 300
    /\ unit_out[3].answered
    /\ unit_out[3].ret # << >>
    /\ unit_out[3].lastAfter > unit_out[3].lastBefore

(***************************************************************************)
(* The worker under its timer trigger with a healthy store: invocations    *)
(* follow one another for ever (index.py 155-183), every query of the      *)
(* decision store and of the feature store answers.                        *)
(***************************************************************************)
\* The step's reads were answered: the pending query did not fail, and a pair
\* whose feature row exists was not reported as having none.
HealthyStore ==
    /\ select_ok[1]
    /\ outcome[1] # << >> =>
          LET o == outcome[1][Len(outcome[1])]
          IN  o.found => o.ret # "False"

HealthyWorker ==
    \/ Trigger(1) /\ HealthyStore'
    \/ LoopStep(1) /\ HealthyStore'
    \/ Return(1)

NextLive == HealthyWorker \/ Environment

\* The trigger fires again and again and an invocation runs to its end.
SpecLive == Init /\ [][NextLive]_vars /\ WF_vars(HealthyWorker)

(***************************************************************************)
(* The scheduler's progress claim.                                         *)
(***************************************************************************)
\* p is a pending HOLD pair whose feature row exists.
Ready(p) == p \in PendingPairs(decisions) /\ risk_features[p] # None

\* C24: under repeated, non-overlapping invocations with a healthy store,
\* every pending HOLD pair whose features are present eventually has an
\* AI_AGENT_REVIEW row, however many older pending pairs are skipped for want
\* of features at each invocation.
C24_ReadyPairsEventuallyReviewed ==
    \A p \in Pairs : [](Ready(p) => <>HasAIReview(decisions, p))

====
